---- MODULE Spec2Model ----
(***************************************************************************)
(* Model of data_ingestor/main.py: the quote fetcher (ForexDataFetcher),   *)
(* the store gateway (DatabaseConnection, DatabaseWriter) over a psycopg2  *)
(* connection to PostgreSQL, the orchestrator (ForexDataIngestionService)  *)
(* and the script under `if __name__ == "__main__"`.                       *)
(***************************************************************************)
EXTENDS Integers, Sequences, FiniteSets, TLC

VARIABLES
    mode,       \* "fetcher": fetch_data alone; "lib": the classes driven by a client;
                \* "main": the script of lines 121-129
    pc,         \* position of the running script / of the fetch in flight
    calls,      \* number of calls the client has made (bounded by MaxCalls)
    response,   \* the HTTP exchange fetch_data is processing (local of fetch_data)
    reqPair,    \* the currency_pair argument of the fetch in flight
    data,       \* the ForexData the caller holds (result of the last good fetch)
    ret,        \* how the last call ended for its caller
    dbconn,     \* the DatabaseConnection object: "absent", "failed" (no attributes), "ok"
    writer,     \* the DatabaseWriter object: "absent", "unbound" (no attributes), "bound"
    conn,       \* the psycopg2 session: transaction status and uncommitted work
    srv,        \* the committed contents of the PostgreSQL server
    ev,         \* what happened inside the last call (statements issued, failures caught)
    hist        \* facts about the whole execution so far

vars == <<mode, pc, calls, response, reqPair, data, ret, dbconn, writer, conn, srv, ev, hist>>

-----------------------------------------------------------------------------
(* Bounds of the model *)

MaxCalls == 5

(* Constants of the program *)

HTTP_OK == 200
VARCHAR_LEN == 10

-----------------------------------------------------------------------------
(* Python values *)

None == [kind |-> "None"]
Str(s) == [kind |-> "string", s |-> s]
Num(n) == [kind |-> "number", n |-> n]

Return(v) == [outcome |-> "returned", exc |-> "", msg |-> "", value |-> v]
Raise(exc, msg) == [outcome |-> "raised", exc |-> exc, msg |-> msg, value |-> None]

\* The dataclass of lines 7-11.
ForexData(currency_pair, exchange_rate, timestamp) ==
    [kind |-> "ForexData", currency_pair |-> currency_pair,
     exchange_rate |-> exchange_rate, timestamp |-> timestamp]

\* str(v) as an f-string renders it
fstring(v) == IF v.kind = "string" THEN v.s ELSE ToString(v.n)

\* dict.get(key, default)
dict_get(d, key, default) == IF key \in DOMAIN d THEN d[key] ELSE default

-----------------------------------------------------------------------------
(* The provider's answers *)

Pairs == {"USD/GBP", "USDT/GBPXYZ"}

PairLen(p) == IF p = "USD/GBP" THEN 7 ELSE 11

GoodTime == "Mon, 01 Jan 2024 00:00:00 +0000"
LaterTime == "Tue, 02 Jan 2024 00:00:00 +0000"
BadTime == "not-a-date"

JsonKeys == {"result", "error", "conversion_rate", "time_last_update_utc"}

FieldValues(k) ==
    CASE k = "result" -> {Str("success"), Str("error")}
      [] k = "error" -> {Str("unsupported-code")}
      [] k = "conversion_rate" -> {Num(2), Num(-1), Str("abc")}
      [] k = "time_last_update_utc" -> {Str(GoodTime), Str(LaterTime), Str(BadTime)}

\* every JSON object over a subset of the keys
JsonObjects == UNION {[ks -> UNION {FieldValues(k) : k \in ks}] : ks \in SUBSET JsonKeys}

WellTyped(o) == \A k \in DOMAIN o : o[k] \in FieldValues(k)

Bodies ==
    {[kind |-> "text"], [kind |-> "array"]}
    \cup {[kind |-> "object", obj |-> o] : o \in {x \in JsonObjects : WellTyped(x)}}

Responses == [status_code : {HTTP_OK, 404}, body : Bodies]

\* requests.get either raises (network down, timeout) or returns a response
HttpResults == {[ok |-> FALSE]} \cup {[ok |-> TRUE, response |-> r] : r \in Responses}

-----------------------------------------------------------------------------
(* ForexDataFetcher.fetch_data, lines 18-29 *)

fetch_data_raise(body) ==
    IF body.kind = "array"
    THEN Raise("AttributeError", "get")
    ELSE Raise("Exception", "Failed to fetch data from ExchangeRate-API: "
                  \o fstring(dict_get(body.obj, "error", Str("Unknown error"))))

\* a slip that passes the two fields in the wrong order
forex_record_swapped(currency_pair, obj) ==
    ForexData(currency_pair, obj["time_last_update_utc"], obj["conversion_rate"])

\* lines 26-29: the record built from a successful answer
forex_record(currency_pair, obj) ==
    ForexData(currency_pair, obj["conversion_rate"], obj["time_last_update_utc"])

fetch_data(currency_pair, http) ==
    IF ~http.ok THEN Raise("ConnectionError", "")                         \* line 20
    ELSE LET body == http.response.body
             status_code == http.response.status_code
         IN IF body.kind = "text" THEN Raise("JSONDecodeError", "")       \* line 21
            ELSE IF status_code # HTTP_OK THEN fetch_data_raise(body)      \* line 23, left operand
            ELSE IF body.kind = "array" THEN Raise("TypeError", "result")
            ELSE IF "result" \notin DOMAIN body.obj THEN Raise("KeyError", "result")
            ELSE IF body.obj["result"] # Str("success") THEN fetch_data_raise(body)
            ELSE IF "conversion_rate" \notin DOMAIN body.obj
                 THEN Raise("KeyError", "conversion_rate")                \* line 26
            ELSE IF "time_last_update_utc" \notin DOMAIN body.obj
                 THEN Raise("KeyError", "time_last_update_utc")           \* line 27
            ELSE Return(forex_record(currency_pair, body.obj))             \* line 29

\* the ways a call fetch_data(p) can end, over every answer of the provider
FetchOutcomes == [p \in Pairs |-> {fetch_data(p, http) : http \in HttpResults}]

-----------------------------------------------------------------------------
(* The PostgreSQL session behind psycopg2: cursor.execute and connection.commit *)

\* Outcome the environment gives one database round trip: the statement runs,
\* the server rejects it (permission, disk, constraint), or the connection is lost.
Faults == {"ok", "fail", "lost"}

NoSession == [status |-> "none", pendingRows |-> <<>>, pendingTable |-> FALSE]
Session(status) == [status |-> status, pendingRows |-> <<>>, pendingTable |-> FALSE]

Stmt(sql) == [sql |-> sql, params |-> <<>>]
Insert(params) == [sql |-> "INSERT", params |-> params]

\* column exchange_rate NUMERIC (line 71): a number; the string 'abc' is no numeric literal
NumericOk(v) == v.kind = "number"
Numeric(v) == v.n

\* column timestamp TIMESTAMP (line 72): a string PostgreSQL can read as a date and time
TimestampOk(v) == v.kind = "string" /\ v.s \in {GoodTime, LaterTime}
Timestamp(v) ==
    [year |-> 2024, month |-> 1, day |-> IF v.s = GoodTime THEN 1 ELSE 2,
     hour |-> 0, minute |-> 0, second |-> 0]

\* column currency_pair VARCHAR(10) NOT NULL (line 70)
VarcharOk(p) == PairLen(p) <= VARCHAR_LEN

TableVisible(w) == w.srv.tableExists \/ w.conn.pendingTable

Done(w) == [w |-> w, raised |-> FALSE, exc |-> ""]
Failed(w, exc) == [w |-> w, raised |-> TRUE, exc |-> exc]

\* A failed statement leaves the transaction aborted: its work can only be rolled back.
Aborted(w) == [w EXCEPT !.conn = Session("inerror")]
Lost(w) == [w EXCEPT !.conn = Session("closed")]

\* cursor.execute(stmt): psycopg2 opens a transaction with the first statement
\* (autocommit is never set), and the statement joins it.
execute(w, stmt, f) ==
    IF w.conn.status = "closed" THEN Failed(w, "InterfaceError")
    ELSE IF f = "lost" THEN Failed(Lost(w), "OperationalError")
    ELSE IF w.conn.status = "inerror" THEN Failed(w, "InFailedSqlTransaction")
    ELSE IF f = "fail" THEN Failed(Aborted(w), "DatabaseError")
    ELSE CASE stmt.sql = "SELECT_DATABASE" ->
                Done([w EXCEPT !.conn.status = "intrans"])
           [] stmt.sql = "CREATE_DATABASE" ->
                \* CREATE DATABASE cannot run inside a transaction block
                Failed(Aborted(w), "ActiveSqlTransaction")
           [] stmt.sql = "CREATE_TABLE_IF_NOT_EXISTS" ->
                IF TableVisible(w)
                THEN Done([w EXCEPT !.conn.status = "intrans"])
                ELSE Done([w EXCEPT !.conn.status = "intrans", !.conn.pendingTable = TRUE])
           [] stmt.sql = "CREATE_TABLE" ->
                IF TableVisible(w)
                THEN Failed(Aborted(w), "DuplicateTable")
                ELSE Done([w EXCEPT !.conn.status = "intrans", !.conn.pendingTable = TRUE])
           [] stmt.sql = "INSERT" ->
                IF ~TableVisible(w) THEN Failed(Aborted(w), "UndefinedTable")
                ELSE IF ~( /\ VarcharOk(stmt.params[1])
                           /\ NumericOk(stmt.params[2])
                           /\ TimestampOk(stmt.params[3]) )
                THEN Failed(Aborted(w), "DataError")
                ELSE Done([w EXCEPT
                        !.conn.status = "intrans",
                        !.conn.pendingRows = Append(@,
                            [id |-> w.srv.nextId,
                             currency_pair |-> stmt.params[1],
                             exchange_rate |-> Numeric(stmt.params[2]),
                             timestamp |-> Timestamp(stmt.params[3])]),
                        \* the SERIAL sequence is not rolled back
                        !.srv.nextId = @ + 1])

\* the work of the open transaction becomes the committed contents
Applied(w) ==
    [conn |-> Session("idle"),
     srv |-> [w.srv EXCEPT !.tableExists = @ \/ w.conn.pendingTable,
                           !.rows = @ \o w.conn.pendingRows]]

\* connection.commit(): COMMIT of an aborted transaction is a ROLLBACK and raises
\* nothing; a COMMIT the server refuses rolls the transaction back.
commit(w, f) ==
    IF w.conn.status = "closed" THEN Failed(w, "InterfaceError")
    ELSE IF f = "lost" THEN Failed(Lost(w), "OperationalError")
    ELSE IF w.conn.status = "idle" THEN Done(w)
    ELSE IF w.conn.status = "inerror" THEN Done([w EXCEPT !.conn = Session("idle")])
    ELSE IF f = "fail" THEN Failed([w EXCEPT !.conn = Session("idle")], "DatabaseError")
    ELSE Done(Applied(w))

-----------------------------------------------------------------------------
(* DatabaseConnection, lines 31-79 *)

Caught(w, stages) == [w |-> w, caught |-> stages]

\* lines 50-62; every exception is caught, logged and printed
create_database(obj, w, f) ==
    IF obj # "ok" THEN Caught(w, {"create_database"})           \* self.cursor is missing
    ELSE LET r1 == execute(w, Stmt("SELECT_DATABASE"), f)                   \* line 53
             exists == w.srv.dbExists                                       \* line 54
             r2 == execute(r1.w, Stmt("CREATE_DATABASE"), "ok")             \* line 57
             r3 == commit(r2.w, "ok")                                       \* line 58
         IN IF r1.raised THEN Caught(r1.w, {"create_database"})
            ELSE IF exists THEN Caught(r1.w, {})
            ELSE IF r2.raised THEN Caught(r2.w, {"create_database"})
            ELSE IF r3.raised THEN Caught(r3.w, {"create_database"})
            ELSE Caught(r3.w, {})

\* a slip that creates the table without IF NOT EXISTS
create_forex_table_plain(obj, w, f1, f2) ==
    IF obj # "ok" THEN Caught(w, {"create_forex_table"})
    ELSE LET r1 == execute(w, Stmt("CREATE_TABLE"), f1)
             r2 == commit(r1.w, f2)
         IN IF r1.raised THEN Caught(r1.w, {"create_forex_table"})
            ELSE IF r2.raised THEN Caught(r2.w, {"create_forex_table"})
            ELSE Caught(r2.w, {})

\* lines 64-79
create_forex_table(obj, w, f1, f2) ==
    IF obj # "ok" THEN Caught(w, {"create_forex_table"})
    ELSE LET r1 == execute(w, Stmt("CREATE_TABLE_IF_NOT_EXISTS"), f1)       \* line 67
             r2 == commit(r1.w, f2)                                         \* line 75
         IN IF r1.raised THEN Caught(r1.w, {"create_forex_table"})
            ELSE IF r2.raised THEN Caught(r2.w, {"create_forex_table"})
            ELSE Caught(r2.w, {})

\* create_database() then create_forex_table(), as lines 45-46 call them
ensureSchema(obj, w, fs) ==
    LET a == create_database(obj, w, fs[1])
        b == create_forex_table(obj, a.w, fs[2], fs[3])
    IN Caught(b.w, a.caught \cup b.caught)

\* lines 32-49: psycopg2.connect(dbname=db_name, ...) succeeds only when the server is
\* reachable, accepts the credentials and has the database; a failure is printed and
\* leaves the object without connection, cursor and db_name
DatabaseConnection(server, reachable, fs) ==
    IF ~(reachable /\ server.dbExists)
    THEN [obj |-> "failed", w |-> [conn |-> NoSession, srv |-> server], caught |-> {"connect"}]
    ELSE LET r == ensureSchema("ok", [conn |-> Session("idle"), srv |-> server], fs)
         IN [obj |-> "ok", w |-> r.w, caught |-> r.caught]

-----------------------------------------------------------------------------
(* DatabaseWriter, lines 81-104 *)

\* lines 82-89: reading dbconnection.db_name of a failed connection raises
\* AttributeError, which is caught and logged
DatabaseWriter(obj) == IF obj = "ok" THEN "bound" ELSE "unbound"

WriteResult(w, caught, insert, tableAtInsert, rowId) ==
    [w |-> w, ret |-> Return(None), caught |-> caught, insert |-> insert,
     tableAtInsert |-> tableAtInsert, rowId |-> rowId]

\* a slip that leaves out the commit of line 96
write_data_nocommit(self, w, d, f1, f2) ==
    IF self # "bound" \/ d.kind # "ForexData"
    THEN WriteResult(w, {"attribute"}, FALSE, FALSE, 0)
    ELSE LET r1 == execute(w, Insert(<<d.currency_pair, d.exchange_rate, d.timestamp>>), f1)
         IN IF r1.raised THEN WriteResult(r1.w, {"insert"}, TRUE, TableVisible(w), 0)
            ELSE WriteResult(r1.w, {}, TRUE, TableVisible(w), w.srv.nextId)

\* a slip that runs the connection in autocommit mode: the INSERT is durable as soon
\* as it is executed, and the commit that follows can still fail
write_data_autocommit(self, w, d, f1, f2) ==
    IF self # "bound" \/ d.kind # "ForexData"
    THEN WriteResult(w, {"attribute"}, FALSE, FALSE, 0)
    ELSE LET r1 == execute(w, Insert(<<d.currency_pair, d.exchange_rate, d.timestamp>>), f1)
             r2 == commit(Applied(r1.w), f2)
             id == IF r1.raised THEN 0 ELSE w.srv.nextId
         IN IF r1.raised THEN WriteResult(r1.w, {"insert"}, TRUE, TableVisible(w), 0)
            ELSE IF r2.raised THEN WriteResult(r2.w, {"commit"}, TRUE, TableVisible(w), id)
            ELSE WriteResult(r2.w, {}, TRUE, TableVisible(w), id)

\* lines 91-99: INSERT, then COMMIT; every exception is caught, logged and printed,
\* and the method returns None either way
write_data(self, w, d, f1, f2) ==
    IF self # "bound" \/ d.kind # "ForexData"
    THEN WriteResult(w, {"attribute"}, FALSE, FALSE, 0)     \* self.cursor / data.currency_pair
    ELSE LET r1 == execute(w, Insert(<<d.currency_pair, d.exchange_rate, d.timestamp>>), f1)
             r2 == commit(r1.w, f2)
             id == IF r1.raised THEN 0 ELSE w.srv.nextId
         IN IF r1.raised THEN WriteResult(r1.w, {"insert"}, TRUE, TableVisible(w), 0)
            ELSE IF r2.raised THEN WriteResult(r2.w, {"commit"}, TRUE, TableVisible(w), id)
            ELSE WriteResult(r2.w, {}, TRUE, TableVisible(w), id)

\* lines 101-104: an unbound writer has no self.connection; the AttributeError of a
\* finalizer is ignored by the interpreter
del_writer(self, w) ==
    IF self = "bound" /\ w.conn.status # "none"
    THEN [w EXCEPT !.conn = Session("closed")]
    ELSE w

-----------------------------------------------------------------------------
(* ForexDataIngestionService, lines 106-119 *)

\* lines 111-112: fetch_data is called without its currency_pair argument
fetch_data_from_exchange == Raise("TypeError", "fetch_data() missing currency_pair")

\* lines 114-115
write_data_to_database(self, w, d, f1, f2) == write_data(self, w, d, f1, f2)

\* a slip that catches the exception of the fetch and goes on to the write
ingest_data_swallow(self, w, f1, f2) ==
    LET r == fetch_data_from_exchange
        x == write_data_to_database(self, w, r.value, f1, f2)
    IN [w |-> x.w, ret |-> x.ret, stage |-> "", caught |-> x.caught,
        insert |-> x.insert, tableAtInsert |-> x.tableAtInsert, rowId |-> x.rowId]

\* lines 117-119: an exception of the fetch propagates and the write is not reached
ingest_data(self, w, f1, f2) ==
    LET r == fetch_data_from_exchange
        x == write_data_to_database(self, w, r.value, f1, f2)
    IN IF r.outcome = "raised"
       THEN [w |-> w, ret |-> r, stage |-> "fetch", caught |-> {}, insert |-> FALSE,
             tableAtInsert |-> FALSE, rowId |-> 0]
       ELSE [w |-> x.w, ret |-> x.ret, stage |-> "", caught |-> x.caught,
             insert |-> x.insert, tableAtInsert |-> x.tableAtInsert, rowId |-> x.rowId]

-----------------------------------------------------------------------------
(* State *)

NoResponse == [ok |-> FALSE]

Ev(op) ==
    [op |-> op, stage |-> "", caught |-> {}, insert |-> FALSE, tableAtInsert |-> FALSE,
     rowId |-> 0, db |-> FALSE, envFault |-> FALSE, envOk |-> FALSE]

OldRow ==
    [id |-> 1, currency_pair |-> "USD/GBP", exchange_rate |-> 1,
     timestamp |-> Timestamp(Str(GoodTime))]

\* what an earlier run of the program can have left on the server
Servers ==
    { [dbExists |-> FALSE, tableExists |-> FALSE, rows |-> <<>>, nextId |-> 1],
      [dbExists |-> TRUE, tableExists |-> FALSE, rows |-> <<>>, nextId |-> 1],
      [dbExists |-> TRUE, tableExists |-> TRUE, rows |-> <<>>, nextId |-> 1],
      [dbExists |-> TRUE, tableExists |-> TRUE, rows |-> <<OldRow>>, nextId |-> 2] }

InitCommon ==
    /\ calls = 0
    /\ response = NoResponse
    /\ reqPair = ""
    /\ data = None
    /\ ret = Return(None)
    /\ dbconn = "absent"
    /\ writer = "absent"
    /\ conn = NoSession
    /\ srv \in Servers
    /\ ev = Ev("")
    /\ hist = [dbTouched |-> FALSE, connectFailed |-> FALSE, fetchFailed |-> FALSE,
               failedIds |-> {}, rows0 |-> Len(srv.rows)]

\* the module imported by a client, or run as a script (line 121)
Init ==
    /\ mode \in {"lib", "main"}
    /\ pc = IF mode = "main" THEN "l125" ELSE "client"
    /\ InitCommon

InitFetch ==
    /\ mode = "fetcher"
    /\ pc = "idle"
    /\ InitCommon
    /\ ~srv.dbExists

World == [conn |-> conn, srv |-> srv]

-----------------------------------------------------------------------------
(* fetch_data step by step: the request of line 20, then lines 21-29 *)

FetchGet ==
    /\ mode = "fetcher"
    /\ pc = "idle"
    /\ \E p \in Pairs, http \in HttpResults :
          /\ reqPair' = p
          /\ response' = http
    /\ pc' = "got"
    /\ UNCHANGED <<mode, calls, data, ret, dbconn, writer, conn, srv, ev, hist>>

FetchProcess ==
    /\ mode = "fetcher"
    /\ pc = "got"
    /\ LET r == fetch_data(reqPair, response)
       IN /\ ret' = r
          /\ data' = IF r.outcome = "returned" THEN r.value ELSE data
          /\ ev' = [Ev("fetch_data") EXCEPT !.stage = IF r.outcome = "raised" THEN "fetch" ELSE ""]
    /\ pc' = "fetched"
    /\ UNCHANGED <<mode, calls, response, reqPair, dbconn, writer, conn, srv, hist>>

-----------------------------------------------------------------------------
(* The calls of a client of the classes *)

ClientCall ==
    /\ mode = "lib"
    /\ calls < MaxCalls
    /\ calls' = calls + 1
    /\ UNCHANGED <<mode, pc, response, reqPair>>

Fetch ==
    /\ ClientCall
    /\ \E p \in Pairs : \E r \in FetchOutcomes[p] :
          /\ ret' = r
          /\ data' = IF r.outcome = "returned" THEN r.value ELSE data
          /\ ev' = [Ev("fetch_data") EXCEPT
                       !.stage = IF r.outcome = "raised" THEN "fetch" ELSE ""]
    /\ UNCHANGED <<dbconn, writer, conn, srv, hist>>

Connect ==
    /\ ClientCall
    /\ dbconn = "absent"
    /\ \E reachable \in BOOLEAN, fs \in [1..3 -> Faults] :
          LET r == DatabaseConnection(srv, reachable, fs)
          IN /\ dbconn' = r.obj
             /\ conn' = r.w.conn
             /\ srv' = r.w.srv
             /\ ev' = [Ev("DatabaseConnection") EXCEPT
                          !.caught = r.caught, !.db = TRUE,
                          !.envFault = (\E i \in 1..3 : fs[i] # "ok")]
             /\ hist' = [hist EXCEPT !.dbTouched = TRUE,
                                     !.connectFailed = (r.obj = "failed")]
    /\ ret' = Return(None)
    /\ UNCHANGED <<data, writer>>

EnsureSchema ==
    /\ ClientCall
    /\ dbconn # "absent"
    /\ \E fs \in [1..3 -> Faults] :
          LET r == ensureSchema(dbconn, World, fs)
          IN /\ conn' = r.w.conn
             /\ srv' = r.w.srv
             /\ ev' = [Ev("ensureSchema") EXCEPT
                          !.caught = r.caught, !.db = (dbconn = "ok"),
                          !.envFault = (\E i \in 1..3 : fs[i] # "ok")]
             /\ hist' = [hist EXCEPT !.dbTouched = @ \/ (dbconn = "ok")]
    /\ ret' = Return(None)
    /\ UNCHANGED <<data, dbconn, writer>>

NewWriter ==
    /\ ClientCall
    /\ dbconn # "absent"
    /\ writer = "absent"
    /\ writer' = DatabaseWriter(dbconn)
    /\ ev' = [Ev("DatabaseWriter") EXCEPT
                 !.caught = IF dbconn = "ok" THEN {} ELSE {"attribute"}]
    /\ ret' = Return(None)
    /\ UNCHANGED <<data, dbconn, conn, srv, hist>>

WriteEv(op, r, f1, f2) ==
    [Ev(op) EXCEPT !.caught = r.caught, !.insert = r.insert,
                   !.tableAtInsert = r.tableAtInsert, !.rowId = r.rowId,
                   !.db = r.insert, !.envFault = (f1 # "ok" \/ f2 # "ok")]

WriteHist(r) ==
    [hist EXCEPT !.dbTouched = @ \/ r.insert,
                 !.failedIds = IF r.caught # {} /\ r.rowId # 0
                               THEN @ \cup {r.rowId} ELSE @]

Write ==
    /\ ClientCall
    /\ writer # "absent"
    /\ data # None
    /\ \E f1 \in Faults, f2 \in Faults :
          LET r == write_data(writer, World, data, f1, f2)
          IN /\ conn' = r.w.conn
             /\ srv' = r.w.srv
             /\ ret' = r.ret
             /\ ev' = WriteEv("write_data", r, f1, f2)
             /\ hist' = WriteHist(r)
    /\ UNCHANGED <<data, dbconn, writer>>

\* the environment of one cycle: whether the provider would answer a well-formed
\* success, and what the database would do with the INSERT and the COMMIT
Ingest ==
    /\ ClientCall
    /\ writer # "absent"
    /\ \E providerOk \in BOOLEAN, f1 \in Faults, f2 \in Faults :
          LET r == ingest_data(writer, World, f1, f2)
          IN /\ conn' = r.w.conn
             /\ srv' = r.w.srv
             /\ ret' = r.ret
             /\ ev' = [WriteEv("ingest_data", r, f1, f2) EXCEPT
                          !.stage = r.stage,
                          !.envOk = /\ providerOk
                                    /\ f1 = "ok" /\ f2 = "ok"
                                    /\ writer = "bound"
                                    /\ conn.status \in {"idle", "intrans"}
                                    /\ TableVisible(World)]
             /\ hist' = WriteHist(r)
    /\ UNCHANGED <<data, dbconn, writer>>

Del ==
    /\ ClientCall
    /\ writer # "absent"
    /\ LET w == del_writer(writer, World)
       IN /\ conn' = w.conn
          /\ srv' = w.srv
    /\ writer' = "absent"
    /\ ev' = Ev("__del__")
    /\ ret' = Return(None)
    /\ UNCHANGED <<data, dbconn, hist>>

-----------------------------------------------------------------------------
(* The script, lines 121-129 *)

ScriptPair == "USD/GBP"

ScriptLine(at) ==
    /\ mode = "main"
    /\ pc = at
    /\ calls' = calls + 1
    /\ UNCHANGED <<mode, response, reqPair>>

\* an exception nothing catches ends the process with a traceback
ScriptFetch(r, next) ==
    /\ ret' = r
    /\ ev' = [Ev("fetch_data") EXCEPT !.stage = IF r.outcome = "raised" THEN "fetch" ELSE ""]
    /\ pc' = IF r.outcome = "raised" THEN "crashed" ELSE next
    /\ hist' = [hist EXCEPT !.fetchFailed = (r.outcome = "raised")]
    /\ UNCHANGED <<dbconn, writer, conn, srv>>

\* line 125: data = data_fetcher.fetch_data('USD/GBP')
Main125 ==
    /\ ScriptLine("l125")
    /\ \E r \in FetchOutcomes[ScriptPair] :
          /\ ScriptFetch(r, "l126")
          /\ data' = IF r.outcome = "returned" THEN r.value ELSE data

\* line 126: print(data_fetcher.fetch_data('USD/GBP')), a second request
Main126 ==
    /\ ScriptLine("l126")
    /\ \E r \in FetchOutcomes[ScriptPair] : ScriptFetch(r, "l127")
    /\ UNCHANGED data

\* line 127: db_conn = DatabaseConnection(...)
Main127 ==
    /\ ScriptLine("l127")
    /\ \E reachable \in BOOLEAN, fs \in [1..3 -> Faults] :
          LET r == DatabaseConnection(srv, reachable, fs)
          IN /\ dbconn' = r.obj
             /\ conn' = r.w.conn
             /\ srv' = r.w.srv
             /\ ev' = [Ev("DatabaseConnection") EXCEPT
                          !.caught = r.caught, !.db = TRUE,
                          !.envFault = (\E i \in 1..3 : fs[i] # "ok")]
             /\ hist' = [hist EXCEPT !.dbTouched = TRUE,
                                     !.connectFailed = (r.obj = "failed")]
    /\ ret' = Return(None)
    /\ pc' = "l128"
    /\ UNCHANGED <<data, writer>>

\* line 128: writer = DatabaseWriter(dbconnection=db_conn)
Main128 ==
    /\ ScriptLine("l128")
    /\ writer' = DatabaseWriter(dbconn)
    /\ ev' = [Ev("DatabaseWriter") EXCEPT
                 !.caught = IF dbconn = "ok" THEN {} ELSE {"attribute"}]
    /\ ret' = Return(None)
    /\ pc' = "l129"
    /\ UNCHANGED <<data, dbconn, conn, srv, hist>>

\* line 129: writer.write_data(data)
Main129 ==
    /\ ScriptLine("l129")
    /\ \E f1 \in Faults, f2 \in Faults :
          LET r == write_data(writer, World, data, f1, f2)
          IN /\ conn' = r.w.conn
             /\ srv' = r.w.srv
             /\ ret' = r.ret
             /\ ev' = WriteEv("write_data", r, f1, f2)
             /\ hist' = WriteHist(r)
    /\ pc' = "exit"
    /\ UNCHANGED <<data, dbconn, writer>>

\* the end of the script: the interpreter finalizes the writer and exits with status 0
MainExit ==
    /\ ScriptLine("exit")
    /\ LET w == del_writer(writer, World)
       IN /\ conn' = w.conn
          /\ srv' = w.srv
    /\ writer' = "absent"
    /\ ev' = Ev("__del__")
    /\ ret' = Return(None)
    /\ pc' = "done"
    /\ UNCHANGED <<data, dbconn, hist>>

-----------------------------------------------------------------------------
(* Specifications *)

Next ==
    \/ Fetch \/ Connect \/ EnsureSchema \/ NewWriter \/ Write \/ Ingest \/ Del
    \/ Main125 \/ Main126 \/ Main127 \/ Main128 \/ Main129 \/ MainExit

Spec == Init /\ [][Next]_vars

NextFetch == FetchGet \/ FetchProcess

FetchSpec == InitFetch /\ [][NextFetch]_vars

-----------------------------------------------------------------------------
(* Properties of fetch_data, checked under FetchSpec *)

Fetched == mode = "fetcher" /\ pc = "fetched"

\* HTTP 200, a JSON object, result "success", a positive number as conversion_rate
\* and a string as time_last_update_utc
WellFormedSuccess(http) ==
    /\ http.ok
    /\ http.response.status_code = HTTP_OK
    /\ http.response.body.kind = "object"
    /\ LET o == http.response.body.obj
       IN /\ {"result", "conversion_rate", "time_last_update_utc"} \subseteq DOMAIN o
          /\ o["result"] = Str("success")
          /\ o["conversion_rate"].kind = "number"
          /\ o["conversion_rate"].n > 0
          /\ o["time_last_update_utc"].kind = "string"

\* the message of the provider when the answer has one, the generic one otherwise
UpstreamMessage(http) ==
    IF http.response.body.kind = "object" /\ "error" \in DOMAIN http.response.body.obj
    THEN http.response.body.obj["error"].s
    ELSE "Unknown error"

\* C6: for every response that is not a success (status other than 200, result other
\* than "success", missing or malformed fields, non-JSON body) fetch fails with an error
\* carrying the upstream message when there is one and the generic unknown-error message
\* otherwise, and returns no record.
C6_NonSuccessFails ==
    (Fetched /\ response.ok /\ ~WellFormedSuccess(response)) =>
        /\ ret.outcome = "raised"
        /\ ret.msg = "Failed to fetch data from ExchangeRate-API: " \o UpstreamMessage(response)

\* C7: for every requested pair and every well-formed answer with HTTP 200 and result
\* "success", fetch returns a record whose pair is the requested pair, whose rate is the
\* answer's conversion_rate, a positive number, and whose time is time_last_update_utc
\* unchanged.
C7_SuccessRecord ==
    (Fetched /\ WellFormedSuccess(response)) =>
        /\ ret.outcome = "returned"
        /\ ret.value.kind = "ForexData"
        /\ ret.value.currency_pair = reqPair
        /\ ret.value.exchange_rate = response.response.body.obj["conversion_rate"]
        /\ ret.value.exchange_rate.kind = "number"
        /\ ret.value.exchange_rate.n > 0
        /\ ret.value.timestamp = response.response.body.obj["time_last_update_utc"]
        /\ data = ret.value

C7_Witness ==
    /\ Fetched
    /\ WellFormedSuccess(response)
    /\ reqPair = "USD/GBP"
    /\ ret.outcome = "returned"
    /\ ret.value.timestamp = Str(LaterTime)

-----------------------------------------------------------------------------
(* Properties of the gateway, the orchestrator and the script, checked under Spec *)

Called(op) == calls' # calls /\ ev'.op = op

WriteFailed(e) == e.caught \cap {"insert", "commit"} # {}

\* C1: whenever a write fails (the INSERT or the COMMIT fails), write reports the failure
\* to its caller and ingest reports a failure of the write stage; a failed write never
\* ends as a normal return.
C1_WriteFailureReported ==
    /\ (ev.op = "write_data" /\ WriteFailed(ev)) => ret.outcome = "raised"
    /\ (ev.op = "ingest_data" /\ WriteFailed(ev)) =>
           (ret.outcome = "raised" /\ ev.stage = "write")

\* C2: if the fetch step of an ingestion cycle fails, the cycle ends with the failure of
\* the fetch stage and no database write or other database call is made in that cycle.
C2_FetchFailureStopsCycle ==
    /\ (mode = "main" /\ hist.fetchFailed) =>
           /\ pc = "crashed"
           /\ ret.outcome = "raised"
           /\ ev.stage = "fetch"
           /\ ~hist.dbTouched
           /\ dbconn = "absent"
           /\ Len(srv.rows) = hist.rows0
    /\ (ev.op = "ingest_data" /\ fetch_data_from_exchange.outcome = "raised") =>
           /\ ret = fetch_data_from_exchange
           /\ ev.stage = "fetch"
           /\ ~ev.insert
           /\ ~ev.db
           /\ ev.caught = {}

C2_Witness ==
    /\ mode = "main"
    /\ pc = "crashed"
    /\ hist.fetchFailed
    /\ data # None
    /\ ret.msg = "Failed to fetch data from ExchangeRate-API: unsupported-code"

\* C3: when the provider answers with a success and the database accepts the insert, an
\* ingestion cycle persists exactly one row and returns success; in every other case the
\* caller receives a failure tagged with its stage, so that no cycle ends with no row
\* persisted and no failure reported.
C3_AllOrNothing ==
    /\ ev.op = "ingest_data" =>
           IF ev.envOk
           THEN /\ ret.outcome = "returned"
                /\ ev.rowId # 0
                /\ Len(srv.rows) > 0
                /\ srv.rows[Len(srv.rows)].id = ev.rowId
           ELSE ret.outcome = "raised" /\ ev.stage \in {"fetch", "write"}
    /\ (mode = "main" /\ pc = "done") => Len(srv.rows) = hist.rows0 + 1

\* C4: a failed write persists nothing: if the INSERT or the COMMIT fails, the committed
\* contents of forex_data are what they were before the call, and no row of that record
\* is committed by any later operation on the connection.
C4_FailedWritePersistsNothing ==
    [][ /\ (Called("write_data") /\ WriteFailed(ev')) =>
               /\ srv'.rows = srv.rows
               /\ srv'.tableExists = srv.tableExists
               /\ conn'.pendingRows = <<>>
        /\ \A i \in 1..Len(srv'.rows) : srv'.rows[i].id \notin hist'.failedIds ]_vars

C4_Witness ==
    /\ hist.failedIds # {}
    /\ ev.op = "write_data"
    /\ ev.caught = {}
    /\ Len(srv.rows) = hist.rows0 + 1

\* C5: a failed connect is fatal: after it the process performs no fetch and no write
\* attempt.
C5_ConnectFailureFatal ==
    (mode = "main" /\ hist.connectFailed) => ev.op \notin {"fetch_data", "write_data"}

\* C8: a successful write adds exactly one row whose currency_pair, exchange_rate and
\* timestamp are the record's fields, leaves every committed row unchanged, and has
\* committed the row before it returns.
C8_SuccessfulWriteAddsOneRow ==
    [][ (Called("write_data") /\ ev'.caught = {}) =>
            /\ srv'.rows = Append(srv.rows,
                              [id |-> srv.nextId,
                               currency_pair |-> data.currency_pair,
                               exchange_rate |-> Numeric(data.exchange_rate),
                               timestamp |-> Timestamp(data.timestamp)])
            /\ conn'.status = "idle"
            /\ conn'.pendingRows = <<>>
            /\ ret'.outcome = "returned" ]_vars

C8_Witness ==
    /\ ev.op = "write_data"
    /\ ev.caught = {}
    /\ Len(srv.rows) = 2
    /\ srv.rows[1] = OldRow
    /\ srv.rows[2].timestamp.day = 2

C10_TableExistsAtInsert ==
    ev.insert => ev.tableAtInsert

====
